---- MODULE Spec2Model ----
(***************************************************************************)
(* gdrivesync (main.go): one-way local-to-remote synchroniser.             *)
(* main checks the OAuth environment, getClient loads the token file or    *)
(* runs the interactive loopback flow (getTokenFromWeb) and saves the      *)
(* token, syncFolder walks the local tree and starts one goroutine per     *)
(* file, each running uploadToGoogleDrive (open, list by name, update or   *)
(* create), joined by a sync.WaitGroup.                                    *)
(***************************************************************************)
EXTENDS Integers, Sequences, FiniteSets, TLC

(***************************************************************************)
(* Bounds of the model.                                                    *)
(***************************************************************************)
\* number of HTTP requests that may reach the loopback listener in one run
MaxRequests == 2
\* largest number of regular files in the local tree
MaxFiles == 2

(***************************************************************************)
(* Program constants (main.go:21-25).                                      *)
(***************************************************************************)
tokenFile == "token.json"
localFolderPath == "C:\\testsync\\"
gDriveFolderID == "folder_identifier"
OtherFolderID == "another_folder"

(***************************************************************************)
(* oauth2.Token and its JSON form.  A time.Time is an instant (wall) plus  *)
(* an optional monotonic clock reading (mono); RFC 3339 text carries the   *)
(* instant only.                                                           *)
(***************************************************************************)
TimeText == << "0001-01-01T00:00:00Z", "2026-11-02T10:00:00Z", "2026-11-02T11:00:00.5Z" >>
Walls == 0 .. (Len(TimeText) - 1)
ZeroTime == [wall |-> 0, mono |-> FALSE]
ZeroToken == [access_token |-> "", token_type |-> "", refresh_token |-> "", expiry |-> ZeroTime]

Tokens == [access_token : {"", "ya29.A"}, token_type : {"", "Bearer"},
           refresh_token : {"", "1//R"}, expiry : [wall : Walls, mono : BOOLEAN]]

\* time.Time.MarshalJSON: the instant as RFC 3339 text, the monotonic reading dropped
FormatTime(t) == TimeText[t.wall + 1]
\* time.Time.UnmarshalJSON: the instant parsed back, no monotonic reading
ParseTime(s) == [wall |-> (CHOOSE w \in Walls : TimeText[w + 1] = s), mono |-> FALSE]

\* one member of the JSON object, omitted when tagged omitempty and empty
Member(key, val, omitempty) ==
  IF omitempty /\ val = "" THEN << >> ELSE << [key |-> key, val |-> val] >>

\* json.Marshal(token): access_token always, token_type and refresh_token
\* omitempty, expiry always (omitempty never drops a struct)
MarshalDropsRefresh(t) ==
  Member("access_token", t.access_token, FALSE)
    \o Member("token_type", t.token_type, TRUE)
    \o Member("expiry", FormatTime(t.expiry), FALSE)
Marshal(t) ==
  Member("access_token", t.access_token, FALSE)
    \o Member("token_type", t.token_type, TRUE)
    \o Member("refresh_token", t.refresh_token, TRUE)
    \o Member("expiry", FormatTime(t.expiry), FALSE)

\* the value of member key, or dflt when the object has no such member
Field(obj, key, dflt) ==
  IF \E i \in 1 .. Len(obj) : obj[i].key = key
  THEN obj[CHOOSE i \in 1 .. Len(obj) : obj[i].key = key].val
  ELSE dflt
\* json.Unmarshal(file, tok) into a zero oauth2.Token
Unmarshal(obj) ==
  [access_token |-> Field(obj, "access_token", ""),
   token_type |-> Field(obj, "token_type", ""),
   refresh_token |-> Field(obj, "refresh_token", ""),
   expiry |-> IF \E i \in 1 .. Len(obj) : obj[i].key = "expiry"
              THEN ParseTime(Field(obj, "expiry", "")) ELSE ZeroTime]

\* contents of the token file: absent, bytes that are not JSON, or a JSON object
NoFile == [exists |-> FALSE, json |-> FALSE, obj |-> << >>]
Garbage == [exists |-> TRUE, json |-> FALSE, obj |-> << >>]
JsonFile(obj) == [exists |-> TRUE, json |-> TRUE, obj |-> obj]

\* tokenFromFile: os.ReadFile error, json.Unmarshal error, or the token
tokenFromFile(data) ==
  IF ~data.exists THEN [tok |-> ZeroToken, err |-> TRUE]
  ELSE IF ~data.json THEN [tok |-> ZeroToken, err |-> TRUE]
  ELSE [tok |-> Unmarshal(data.obj), err |-> FALSE]

(***************************************************************************)
(* The local tree under localFolderPath.  A node is its path relative to   *)
(* the root, a sequence of names; << >> is the root directory.             *)
(***************************************************************************)
Dirs == { << >>, << "sub" >> }
RegularFiles == { << "a.txt" >>, << "b.txt" >>, << "sub", "a.txt" >> }
Nodes == Dirs \cup RegularFiles
IsDir(n) == n \in Dirs
Parent(n) == SubSeq(n, 1, Len(n) - 1)
\* the trees: the root, every node's parent present, at most MaxFiles files
Trees == { t \in SUBSET Nodes :
             /\ << >> \in t
             /\ \A n \in t : n # << >> => Parent(n) \in t
             /\ Cardinality(t \cap RegularFiles) <= MaxFiles }

\* lexical order of the names in one directory (readDirNames sorts)
NameRank(name) == CASE name = "a.txt" -> 1 [] name = "b.txt" -> 2 [] OTHER -> 3
Children(tree, d) == { n \in tree : Len(n) = Len(d) + 1 /\ Parent(n) = d }
RECURSIVE SortNodes(_)
SortNodes(S) ==
  IF S = {} THEN << >>
  ELSE LET m == CHOOSE n \in S : \A o \in S : NameRank(n[Len(n)]) <= NameRank(o[Len(o)])
       IN << m >> \o SortNodes(S \ {m})

\* filepath.Rel(folderPath, path) and the File{Name, Path} built from it
MkFile(n) == [Name |-> n, Path |-> << localFolderPath >> \o n]
\* filepath.Base(localFilePath)
Base(path) == path[Len(path)]

\* the callback of filepath.Walk in listLocalFiles, for a node without error
walkFnAppendsDirs(files, n) == Append(files, MkFile(n))
walkFn(files, n) == IF ~IsDir(n) THEN Append(files, MkFile(n)) ELSE files

\* the order in which filepath.Walk reaches the nodes below and including n:
\* n first, then its entries in lexical order, each with all below it
RECURSIVE WalkOrder(_, _)
RECURSIVE WalkOrderAll(_, _)
WalkOrder(tree, n) ==
  IF IsDir(n) THEN << n >> \o WalkOrderAll(tree, SortNodes(Children(tree, n))) ELSE << n >>
WalkOrderAll(tree, names) ==
  IF names = << >> THEN << >>
  ELSE WalkOrder(tree, Head(names)) \o WalkOrderAll(tree, Tail(names))

\* the callback applied to the nodes of order, in order
RECURSIVE WalkApply(_, _)
WalkApply(files, order) ==
  IF order = << >> THEN files ELSE WalkApply(walkFn(files, Head(order)), Tail(order))

\* filepath.Walk: bad holds the nodes whose Lstat or directory read fails; the
\* callback returns that error, which ends the walk at the first such node
Walk(tree, bad) ==
  LET order == WalkOrder(tree, << >>)
      stop == { k \in 1 .. Len(order) : order[k] \in bad }
      last == IF stop = {} THEN Len(order)
              ELSE (CHOOSE k \in stop : \A l \in stop : k <= l) - 1
  IN [files |-> WalkApply(<< >>, SubSeq(order, 1, last)), err |-> stop # {}]

\* listLocalFiles(folderPath): the files found and whether the walk failed
listLocalFiles(tree, bad) == Walk(tree, bad)

\* the read failures of one walk: none, or one node of the tree
BadSets(tree) == { b \in SUBSET tree : Cardinality(b) <= 1 }

(***************************************************************************)
(* The remote store: objects of the Drive account.                         *)
(***************************************************************************)
NoContent == << >>
Obj(id, name, parent, trashed) ==
  [id |-> id, name |-> name, parent |-> parent, trashed |-> trashed, content |-> NoContent]
\* the stores a run may start from: empty, a live match, only a trashed match
\* and an object of another folder, all three, and two live objects of one name
InitialRemotes ==
  { {},
    { Obj(1, "a.txt", gDriveFolderID, FALSE) },
    { Obj(2, "a.txt", gDriveFolderID, TRUE), Obj(3, "b.txt", OtherFolderID, FALSE) },
    { Obj(1, "a.txt", gDriveFolderID, FALSE), Obj(2, "a.txt", gDriveFolderID, TRUE),
      Obj(3, "b.txt", OtherFolderID, FALSE) },
    { Obj(1, "a.txt", gDriveFolderID, FALSE), Obj(4, "a.txt", gDriveFolderID, FALSE) } }
\* the id Drive gives the object created by upload task i
NewId(i) == 100 + i

\* Files.List().Q("name='..' and '..' in parents and trashed=false")
Query(store, fileName, parentFolderID) ==
  { o \in store : o.name = fileName /\ o.parent = parentFolderID /\ ~o.trashed }

(***************************************************************************)
(* The OAuth loopback flow.                                                *)
(***************************************************************************)
\* r.URL.Query().Get("code"): "" when the request carries no code
Codes == { "", "4/0AbCd" }
\* tokens config.Exchange returns: an access token, expiry time.Now()+expires_in
ExchangeTokens ==
  { t \in Tokens : t.access_token # "" /\ t.token_type = "Bearer"
                   /\ t.expiry.wall = 1 /\ t.expiry.mono }
Requests == 1 .. MaxRequests

VARIABLES
  env,          \* CLIENT_ID and CLIENT_SECRET of the environment
  pc,           \* where main is
  exitCode,     \* -1 while the process runs, then its exit status
  logged,       \* messages written through package log
  printed,      \* lines main printed to standard output
  tokenData,    \* contents of the token file
  tokenData0,   \* contents of the token file when the run started
  loaded,       \* result of tokenFromFile in getClient
  tok,          \* the token getClient holds
  tokenWrites,  \* successful os.WriteFile calls on the token file
  webStarted,   \* getTokenFromWeb was entered
  server,       \* the goroutine running http.ListenAndServe
  handler,      \* per request: position of its handler goroutine and its code
  authCode,     \* the code main received from authCodeCh
  service,      \* result of drive.NewService
  tree,         \* the local tree
  localFiles,   \* result of listLocalFiles in syncFolder
  walkCount,    \* calls of filepath.Walk
  listCount,    \* calls of Files.List
  task,         \* the upload goroutines syncFolder started, in start order
  wg,           \* counter of the sync.WaitGroup
  remote,       \* the remote store
  remote0,      \* the remote store when the run started
  ops,          \* create and update calls issued
  apiFailed     \* some Drive API call of the run failed

vars == << env, pc, exitCode, logged, printed, tokenData, tokenData0, loaded, tok,
           tokenWrites, webStarted, server, handler, authCode, service, tree,
           localFiles, walkCount, listCount, task, wg, remote, remote0, ops, apiFailed >>

authVars == << tokenData, loaded, tok, tokenWrites, webStarted, server, handler, authCode >>
syncVars == << service, localFiles, walkCount, listCount, task, wg, remote, ops, apiFailed >>
fixedVars == << env, tree, tokenData0, remote0 >>

SyncComplete == "Sync complete."
Msg(m, a) == [msg |-> m, arg |-> a]

\* state of a process that wrote nothing and started no goroutine
Boot ==
  /\ exitCode = -1
  /\ logged = {}
  /\ printed = {}
  /\ loaded = [read |-> FALSE, tok |-> ZeroToken, err |-> FALSE]
  /\ tokenWrites = 0
  /\ webStarted = FALSE
  /\ server = "off"
  /\ handler = [r \in Requests |-> [pc |-> "idle", code |-> ""]]
  /\ authCode = ""
  /\ service = "none"
  /\ localFiles = [walked |-> FALSE, files |-> << >>, err |-> FALSE]
  /\ walkCount = 0
  /\ listCount = 0
  /\ task = << >>
  /\ wg = 0
  /\ ops = {}
  /\ apiFailed = FALSE

Init ==
  /\ Boot
  /\ pc = "start"
  /\ tok = ZeroToken
  /\ env \in [clientID : {"", "id"}, clientSecret : {"", "secret"}]
  /\ tokenData \in {NoFile, Garbage} \cup { JsonFile(Marshal(t)) : t \in ExchangeTokens }
  /\ tokenData0 = tokenData
  /\ tree \in Trees
  /\ remote \in InitialRemotes
  /\ remote0 = remote

Running == exitCode = -1

\* log.Fatal / log.Fatalf: the message, then os.Exit(1)
Fatal(m) ==
  /\ pc' = "fatal"
  /\ exitCode' = 1
  /\ logged' = logged \cup {Msg(m, 0)}

(***************************************************************************)
(* main, getClient and getTokenFromWeb.                                    *)
(***************************************************************************)
\* main.go:224-229
main_checkEnv ==
  /\ Running /\ pc = "start"
  /\ IF env.clientID = "" \/ env.clientSecret = ""
     THEN Fatal("Missing CLIENT_ID or CLIENT_SECRET environment variables")
     ELSE pc' = "getClient" /\ UNCHANGED << exitCode, logged >>
  /\ UNCHANGED << printed, authVars, syncVars, fixedVars >>

\* getClient: the interactive flow runs exactly when tokenFromFile failed
needsWebFlowAlways(res) == TRUE
needsWebFlow(res) == res.err

\* getClient up to config.Client, or up to the wait on authCodeCh in
\* getTokenFromWeb (handler registered, server goroutine started, browser opened)
getClient ==
  /\ Running /\ pc = "getClient"
  /\ LET res == tokenFromFile(tokenData) IN
       /\ loaded' = [read |-> TRUE, tok |-> res.tok, err |-> res.err]
       /\ IF needsWebFlow(res)
          THEN /\ webStarted' = TRUE
               /\ server' = "starting"
               /\ pc' = "awaitCode"
               /\ tok' = tok
          ELSE /\ tok' = res.tok
               /\ pc' = "newService"
               /\ UNCHANGED << webStarted, server >>
  /\ UNCHANGED << exitCode, logged, printed, tokenData, tokenWrites, handler, authCode,
                  syncVars, fixedVars >>

\* the goroutine of main.go:94-98: ListenAndServe binds :8080 or log.Fatal
serverListen ==
  /\ Running /\ server = "starting"
  /\ \/ /\ server' = "listening"
        /\ UNCHANGED << pc, exitCode, logged >>
     \/ /\ server' = "failed"
        /\ Fatal("listen tcp :8080: bind: address already in use")
  /\ UNCHANGED << printed, tokenData, loaded, tok, tokenWrites, webStarted, handler,
                  authCode, syncVars, fixedVars >>

\* a request reaches the listener; its handler reads the code and blocks on
\* the send to authCodeCh (main.go:88-89)
requestArrives(r, c) ==
  /\ Running /\ server = "listening"
  /\ handler[r].pc = "idle"
  /\ IF r = 1 THEN TRUE ELSE handler[r - 1].pc # "idle"
  /\ handler' = [handler EXCEPT ![r] = [pc |-> "send", code |-> c]]
  /\ UNCHANGED << pc, exitCode, logged, printed, tokenData, loaded, tok, tokenWrites,
                  webStarted, server, authCode, syncVars, fixedVars >>

\* the rendezvous on the unbuffered channel: main.go:89 with main.go:104
receiveCode(r) ==
  /\ Running /\ pc = "awaitCode"
  /\ handler[r].pc = "send"
  /\ authCode' = handler[r].code
  /\ handler' = [handler EXCEPT ![r].pc = "respond"]
  /\ pc' = "exchange"
  /\ UNCHANGED << exitCode, logged, printed, tokenData, loaded, tok, tokenWrites,
                  webStarted, server, syncVars, fixedVars >>

\* the handler writes its response and returns (main.go:90-91)
handlerResponds(r) ==
  /\ Running /\ handler[r].pc = "respond"
  /\ handler' = [handler EXCEPT ![r].pc = "done"]
  /\ UNCHANGED << pc, exitCode, logged, printed, tokenData, loaded, tok, tokenWrites,
                  webStarted, server, authCode, syncVars, fixedVars >>

\* config.Exchange (main.go:106-111): an empty code is always refused
exchange ==
  /\ Running /\ pc = "exchange"
  /\ \/ /\ authCode # ""
        /\ \E t \in ExchangeTokens : tok' = t
        /\ pc' = "saveToken"
        /\ UNCHANGED << exitCode, logged >>
     \/ /\ Fatal("Unable to exchange code for token")
        /\ tok' = tok
  /\ UNCHANGED << printed, tokenData, loaded, tokenWrites, webStarted, server, handler,
                  authCode, syncVars, fixedVars >>

\* saveToken (main.go:139-148), then getClient returns the client; a failed
\* os.WriteFile leaves the file as it was or truncated
saveToken ==
  /\ Running /\ pc = "saveToken"
  /\ \/ /\ tokenData' = JsonFile(Marshal(tok))
        /\ tokenWrites' = tokenWrites + 1
        /\ pc' = "newService"
        /\ UNCHANGED << exitCode, logged >>
     \/ /\ tokenData' \in {tokenData, Garbage}
        /\ tokenWrites' = tokenWrites
        /\ Fatal("Unable to write token file")
  /\ UNCHANGED << printed, loaded, tok, webStarted, server, handler, authCode,
                  syncVars, fixedVars >>

\* drive.NewService (main.go:244-247)
newService ==
  /\ Running /\ pc = "newService"
  /\ \/ /\ service' = "ok"
        /\ pc' = "syncFolder"
        /\ UNCHANGED << exitCode, logged >>
     \/ /\ service' = "error"
        /\ Fatal("Unable to create Drive service")
  /\ UNCHANGED << printed, authVars, localFiles, walkCount, listCount, task, wg, remote,
                  ops, apiFailed, fixedVars >>

(***************************************************************************)
(* syncFolder and the upload goroutines.                                   *)
(***************************************************************************)
\* main.go:188: syncFolder gives up exactly when listLocalFiles failed
syncFolderIgnoresErr(res) == FALSE
syncFolderFails(res) == res.err

\* syncFolder calls listLocalFiles (main.go:187-190); its error is fatal in
\* main (main.go:251-253).  At most one node of the tree fails to be read.
syncFolder ==
  /\ Running /\ pc = "syncFolder"
  /\ \E bad \in BadSets(tree) :
       LET res == listLocalFiles(tree, bad) IN
         /\ localFiles' = [walked |-> TRUE, files |-> res.files, err |-> res.err]
         /\ walkCount' = walkCount + 1
         /\ IF syncFolderFails(res)
            THEN Fatal("Error syncing folder")
            ELSE pc' = "spawn" /\ UNCHANGED << exitCode, logged >>
  /\ UNCHANGED << printed, authVars, service, listCount, task, wg, remote, ops,
                  apiFailed, fixedVars >>

\* one turn of the loop main.go:193-204: wg.Add(1), then the go statement
spawn ==
  /\ Running /\ pc = "spawn"
  /\ Len(task) < Len(localFiles.files)
  /\ wg' = wg + 1
  /\ task' = Append(task, [file |-> localFiles.files[Len(task) + 1], pc |-> "open",
                           id |-> 0, opened |-> FALSE, err |-> FALSE])
  /\ UNCHANGED << pc, exitCode, logged, printed, authVars, service, localFiles,
                  walkCount, listCount, remote, ops, apiFailed, fixedVars >>

\* wg.Done (deferred, main.go:196)
wgDoneSkippedOnError(n, err) == IF err THEN n ELSE n - 1
wgDone(n, err) == n - 1

\* the goroutine returns from uploadToGoogleDrive: the error is logged
\* (main.go:200-202), then the deferred wg.Done runs
finish(i, opened, err, log) ==
  /\ task' = [task EXCEPT ![i] = [@ EXCEPT !.pc = "finished", !.opened = opened,
                                           !.err = err]]
  /\ logged' = IF err THEN log \cup {Msg("Error syncing", i)} ELSE log
  /\ wg' = wgDone(wg, err)

\* os.Open(localFilePath) (main.go:35-38)
taskOpen(i) ==
  /\ Running /\ i \in 1 .. Len(task) /\ task[i].pc = "open"
  /\ \/ /\ task' = [task EXCEPT ![i] = [@ EXCEPT !.pc = "list", !.opened = TRUE]]
        /\ UNCHANGED << logged, wg >>
     \/ finish(i, FALSE, TRUE, logged)
  /\ UNCHANGED << pc, exitCode, printed, authVars, service, localFiles, walkCount,
                  listCount, remote, ops, apiFailed, fixedVars >>

\* calls of Files.List one getDriveFileID makes
listsTwice(n) == n + 2
listsOnce(n) == n + 1

\* getDriveFileID (main.go:64-77): the id of some match, 0 for "" on no match
\* or on a failed call, which is logged; then the branch of main.go:44
taskList(i) ==
  /\ Running /\ i \in 1 .. Len(task) /\ task[i].pc = "list"
  /\ listCount' = listsOnce(listCount)
  /\ LET found == Query(remote, Base(task[i].file.Path), gDriveFolderID) IN
       \/ /\ found # {}
          /\ \E o \in found : task' = [task EXCEPT ![i] = [@ EXCEPT !.pc = "update", !.id = o.id]]
          /\ UNCHANGED << logged, apiFailed >>
       \/ /\ found = {}
          /\ task' = [task EXCEPT ![i].pc = "create"]
          /\ UNCHANGED << logged, apiFailed >>
       \/ /\ task' = [task EXCEPT ![i].pc = "create"]
          /\ logged' = logged \cup {Msg("Error checking if file exists", i)}
          /\ apiFailed' = TRUE
  /\ UNCHANGED << pc, exitCode, printed, authVars, service, localFiles, walkCount, wg,
                  remote, ops, fixedVars >>

\* a create or update call issued by task i, and whether a live object of
\* that name was in the destination folder when it was issued
Op(i, kind) ==
  [task |-> i, kind |-> kind, name |-> Base(task[i].file.Path),
   existed |-> Query(remote, Base(task[i].file.Path), gDriveFolderID) # {}]

\* service.Files.Update(existingFileID, nil).Media(file).Do() (main.go:47-48)
taskUpdate(i) ==
  /\ Running /\ i \in 1 .. Len(task) /\ task[i].pc = "update"
  /\ ops' = ops \cup {Op(i, "update")}
  /\ \/ /\ remote' = { IF o.id = task[i].id THEN [o EXCEPT !.content = task[i].file.Path]
                                           ELSE o : o \in remote }
        /\ finish(i, TRUE, FALSE, logged)
        /\ UNCHANGED apiFailed
     \/ /\ remote' = remote
        /\ finish(i, TRUE, TRUE, logged)
        /\ apiFailed' = TRUE
  /\ UNCHANGED << pc, exitCode, printed, authVars, service, localFiles, walkCount,
                  listCount, fixedVars >>

\* service.Files.Create(driveFile).Media(file).Do() (main.go:52-60)
taskCreate(i) ==
  /\ Running /\ i \in 1 .. Len(task) /\ task[i].pc = "create"
  /\ ops' = ops \cup {Op(i, "create")}
  /\ \/ /\ remote' = remote \cup
                       { [id |-> NewId(i), name |-> Base(task[i].file.Path),
                          parent |-> gDriveFolderID, trashed |-> FALSE,
                          content |-> task[i].file.Path] }
        /\ finish(i, TRUE, FALSE, logged)
        /\ UNCHANGED apiFailed
     \/ /\ remote' = remote
        /\ finish(i, TRUE, TRUE, logged)
        /\ apiFailed' = TRUE
  /\ UNCHANGED << pc, exitCode, printed, authVars, service, localFiles, walkCount,
                  listCount, fixedVars >>

\* wg.Wait returns when the counter is zero
wgWaitNoBarrier(n) == TRUE
wgWaitReturns(n) == n = 0

\* the loop is over, wg.Wait returns, syncFolder returns nil and main prints
\* "Sync complete." and returns (main.go:206-256)
syncComplete ==
  /\ Running /\ pc = "spawn"
  /\ Len(task) = Len(localFiles.files)
  /\ wgWaitReturns(wg)
  /\ pc' = "done"
  /\ exitCode' = 0
  /\ printed' = printed \cup {SyncComplete}
  /\ UNCHANGED << logged, authVars, syncVars, fixedVars >>

Tasks == 1 .. MaxFiles + Cardinality(Dirs)

Next ==
  \/ main_checkEnv
  \/ getClient
  \/ serverListen
  \/ \E r \in Requests, c \in Codes : requestArrives(r, c)
  \/ \E r \in Requests : receiveCode(r)
  \/ \E r \in Requests : handlerResponds(r)
  \/ exchange
  \/ saveToken
  \/ newService
  \/ syncFolder
  \/ spawn
  \/ \E i \in Tasks : taskOpen(i)
  \/ \E i \in Tasks : taskList(i)
  \/ \E i \in Tasks : taskUpdate(i)
  \/ \E i \in Tasks : taskCreate(i)
  \/ syncComplete

Spec == Init /\ [][Next]_vars

(***************************************************************************)
(* Scheduling: the Go scheduler runs every runnable goroutine, and a       *)
(* call that was started returns.  Nothing makes a request arrive.  No     *)
(* step of the program can be repeated, so a run under this condition goes *)
(* on until no goroutine can take a step.                                  *)
(***************************************************************************)
mainStep ==
  \/ main_checkEnv \/ getClient \/ exchange \/ saveToken \/ newService
  \/ spawn \/ syncComplete
taskStep(i) == taskOpen(i) \/ taskList(i) \/ taskUpdate(i) \/ taskCreate(i)
goroutineStep ==
  \/ mainStep
  \/ serverListen
  \/ \E r \in Requests : receiveCode(r) \/ handlerResponds(r)
  \/ \E i \in Tasks : taskStep(i)

\* main does not stay in the walk of syncFolder for ever: weak fairness of
\* syncFolder, which is enabled exactly when main is at the walk
walkReturns == []<>(~(Running /\ pc = "syncFolder"))

Fairness == WF_vars(goroutineStep) /\ walkReturns

\* runs that get past the environment check, from a token file that is absent
\* or holds a saved token, and a destination folder empty or with one match
FairInit ==
  /\ Init
  /\ env.clientID # "" /\ env.clientSecret # ""
  /\ tokenData.exists => tokenData.json
  /\ \A o \in remote : o.id = 1

FairSpec == FairInit /\ [][Next]_vars /\ Fairness

(***************************************************************************)
(* The token file across two runs: saveToken of one run, then the          *)
(* tokenFromFile call that getClient makes in the next run.                *)
(***************************************************************************)
TokenInit ==
  /\ Boot
  /\ pc = "saveToken"
  /\ tok \in Tokens
  /\ env = [clientID |-> "id", clientSecret |-> "secret"]
  /\ tokenData \in {NoFile, Garbage} \cup { JsonFile(Marshal(t)) : t \in ExchangeTokens }
  /\ tokenData0 = tokenData
  /\ tree = { << >> }
  /\ remote = {}
  /\ remote0 = remote

nextRunTokenFromFile ==
  /\ pc = "newService"
  /\ LET res == tokenFromFile(tokenData) IN
       loaded' = [read |-> TRUE, tok |-> res.tok, err |-> res.err]
  /\ pc' = "reloaded"
  /\ UNCHANGED << exitCode, logged, printed, tokenData, tok, tokenWrites, webStarted,
                  server, handler, authCode, syncVars, fixedVars >>

TokenNext == saveToken \/ nextRunTokenFromFile

TokenSpec == TokenInit /\ [][TokenNext]_vars

(***************************************************************************)
(* Properties.                                                             *)
(***************************************************************************)
Finished(i) == i \in 1 .. Len(task) /\ task[i].pc = "finished"
AllStarted == Len(task) = Len(localFiles.files)
OpsOf(i) == { o \in ops : o.task = i }

\* C1: "Sync complete." is printed (syncFolder has returned) only when every
\* upload task syncFolder was to start has been started and has finished.
C1_SuccessAfterAllTasks ==
  (SyncComplete \in printed \/ pc = "done") =>
    /\ localFiles.walked
    /\ AllStarted
    /\ \A i \in 1 .. Len(task) : Finished(i)
    /\ wg = 0
\* success reported after two upload tasks ran
C1_Witness ==
  /\ SyncComplete \in printed
  /\ Len(task) = 2
  /\ \A i \in 1 .. Len(task) : Finished(i) /\ OpsOf(i) # {}

\* C2: every file that was opened gets exactly one remote write, an update
\* when a live object of its name is in the destination folder and a create
\* only when there is none.
C2_OneWriteByNameMatch ==
  \A i \in 1 .. Len(task) :
    (Finished(i) /\ task[i].opened) =>
      /\ Cardinality(OpsOf(i)) = 1
      /\ \A o \in OpsOf(i) : (o.kind = "update") <=> o.existed
      /\ \A o \in OpsOf(i) : o.kind = "create" => ~o.existed

\* C3: a walk that ends without error returns exactly the regular files of
\* the tree, each once and no directory, and syncFolder starts one upload
\* task per entry, in order.
C3_WalkVisitsEachFileOnce ==
  /\ (localFiles.walked /\ ~localFiles.err) =>
       LET fs == localFiles.files IN
         /\ { fs[k].Name : k \in 1 .. Len(fs) } = tree \cap RegularFiles
         /\ \A k, l \in 1 .. Len(fs) : fs[k].Name = fs[l].Name => k = l
         /\ \A k \in 1 .. Len(fs) : ~IsDir(fs[k].Name)
         /\ \A k \in 1 .. Len(fs) : fs[k].Path = << localFolderPath >> \o fs[k].Name
  /\ Len(task) <= Len(localFiles.files)
  /\ \A i \in 1 .. Len(task) : task[i].file = localFiles.files[i]
  /\ pc = "done" => AllStarted
\* a finished run over a tree with a file at the top and one in a subdirectory
C3_Witness ==
  /\ pc = "done"
  /\ tree = { << >>, << "b.txt" >>, << "sub" >>, << "sub", "a.txt" >> }
  /\ Len(task) = 2

\* C4: the token read back from the file saveToken wrote is read without
\* error and has the access token, token type, refresh token and expiry
\* instant of the token that was saved.
C4_TokenRoundTrip ==
  pc = "reloaded" =>
    /\ ~loaded.err
    /\ loaded.tok.access_token = tok.access_token
    /\ loaded.tok.token_type = tok.token_type
    /\ loaded.tok.refresh_token = tok.refresh_token
    /\ loaded.tok.expiry.wall = tok.expiry.wall
\* a token with a refresh token and a monotonic clock reading was saved over
\* an unreadable file and read back
C4_Witness ==
  /\ pc = "reloaded"
  /\ tokenData0 = Garbage
  /\ tok.refresh_token # "" /\ tok.expiry.mono /\ tok.expiry.wall = 2
  /\ tokenWrites = 1

\* C5: after a fatal setup error (credentials missing, drive.NewService
\* failed, the walk failed) the process has exited nonzero with the message
\* logged, "Sync complete." is not printed and no create or update was issued.
CredentialsMissing == env.clientID = "" \/ env.clientSecret = ""
SetupErrors ==
  { m \in { "Missing CLIENT_ID or CLIENT_SECRET environment variables",
            "Unable to create Drive service", "Error syncing folder" } :
      \/ m = "Missing CLIENT_ID or CLIENT_SECRET environment variables"
           /\ CredentialsMissing /\ pc # "start"
      \/ m = "Unable to create Drive service" /\ service = "error"
      \/ m = "Error syncing folder" /\ localFiles.err }
C5_FatalSetupError ==
  \A m \in SetupErrors :
    /\ pc = "fatal"
    /\ exitCode # 0 /\ exitCode # -1
    /\ Msg(m, 0) \in logged
    /\ SyncComplete \notin printed
    /\ ops = {} /\ task = << >>
\* the walk failed after it had found a file
C5_Witness ==
  /\ localFiles.err
  /\ Len(localFiles.files) > 0
  /\ pc = "fatal"

\* C6: a failure while syncing one file (open, list, create or update) is
\* logged, never ends the process, and the run goes on to finish every
\* upload task and to print "Sync complete." with exit status 0.
FileFailed(i) ==
  /\ i \in 1 .. Len(task)
  /\ task[i].err \/ Msg("Error checking if file exists", i) \in logged
FailuresLogged ==
  \A i \in 1 .. Len(task) :
    FileFailed(i) => (task[i].pc = "finished" /\ (task[i].err => Msg("Error syncing", i) \in logged))
RunCompleted ==
  /\ pc = "done" /\ exitCode = 0
  /\ SyncComplete \in printed
  /\ AllStarted
  /\ \A j \in 1 .. Len(task) : Finished(j)
AnyFileFailed == \E i \in 1 .. Len(task) : FileFailed(i)
C6_FileFailureDoesNotStopRun ==
  /\ [](AnyFileFailed => pc # "fatal")
  /\ AnyFileFailed ~> (RunCompleted /\ FailuresLogged)
\* a finished run in which one file failed and another was written
C6_Witness ==
  /\ RunCompleted
  /\ \E i, j \in 1 .. Len(task) :
       /\ task[i].err
       /\ ~task[j].err /\ ~FileFailed(j) /\ OpsOf(j) # {}
       /\ \E o \in remote : o.content = task[j].file.Path

\* C7: a token that loads from the file starts no interactive flow and the
\* file stays as it was; otherwise the file is written at most once, with the
\* token of the exchange, and exactly once before any list, create or update.
RemoteCalls == listCount > 0 \/ ops # {}
C7_TokenFileWrittenOnlyAfterAuth ==
  /\ ~loaded.read => (tokenData = tokenData0 /\ tokenWrites = 0 /\ ~RemoteCalls)
  /\ (loaded.read /\ ~loaded.err) =>
       (~webStarted /\ tokenWrites = 0 /\ tokenData = tokenData0 /\ tok = loaded.tok)
  /\ tokenWrites <= 1
  /\ tokenWrites = 1 =>
       /\ loaded.read /\ loaded.err /\ webStarted
       /\ authCode # "" /\ tok \in ExchangeTokens
       /\ tokenData = JsonFile(Marshal(tok))
  /\ (loaded.read /\ loaded.err /\ RemoteCalls) => tokenWrites = 1
\* the token came from the exchange, was saved, and a remote write followed
C7_Witness ==
  /\ loaded.err /\ tokenWrites = 1
  /\ tokenData # tokenData0
  /\ ops # {}

\* C8 as stated: a finished run made exactly one Files.List call and one walk.
C8_ListedOncePerRun ==
  pc = "done" => (listCount = 1 /\ walkCount = 1)
\* C8 as the code has it: the tree is walked once, and Files.List is called
\* once for every upload task whose file was opened, never for another.
Listed(i) ==
  \/ task[i].pc \in {"update", "create"}
  \/ task[i].pc = "finished" /\ task[i].opened
C8_ListedOncePerFile ==
  /\ walkCount <= 1
  /\ localFiles.walked <=> walkCount = 1
  /\ listCount = Cardinality({ i \in 1 .. Len(task) : Listed(i) })
  /\ pc = "done" =>
       /\ walkCount = 1
       /\ listCount = Cardinality({ i \in 1 .. Len(task) : task[i].opened })
\* a finished run that listed twice, once for each of two files
C8_Witness ==
  /\ pc = "done"
  /\ listCount = 2
  /\ Len(task) = 2

\* C9: one code is taken from the channel and exchanged, and the handler of
\* every request that reached the listener gets past its send on authCodeCh.
C9_EveryHandlerFinishes ==
  /\ [](Cardinality({ r \in Requests : handler[r].pc \in {"respond", "done"} }) <= 1)
  /\ \A r \in Requests :
       [](handler[r].pc = "send" => <>(handler[r].pc \in {"respond", "done"}))

\* C10: a run without a failed API call that starts from a destination
\* folder with at most one live object per name ends with at most one live
\* object per name.
Live(store) == { o \in store : o.parent = gDriveFolderID /\ ~o.trashed }
UniqueNames(store) == \A o, q \in Live(store) : o.name = q.name => o.id = q.id
C10_NoDuplicateNames ==
  (pc = "done" /\ ~apiFailed /\ UniqueNames(remote0)) => UniqueNames(remote)

====
